---- MODULE Spec2Model ----
(***************************************************************************)
(* Model of mimic/canned_responses/loadbalancer.py: the load balancer      *)
(* lifecycle engine (_verify_and_update_lb_state) and the handlers that    *)
(* drive it (del_load_balancer, list_nodes, _delete_node).                 *)
(*                                                                         *)
(* store.lbs  : dict  lb_id -> record; a record is a function whose        *)
(*              domain holds "status", "updated", "nodeCount" and, when    *)
(*              the node collection exists, "nodes".                       *)
(* store.meta : dict  lb_id -> dict of metadata key -> value.              *)
(* A Python exception (KeyError) is the outcome raised = TRUE.             *)
(*                                                                         *)
(* The store is built by callers outside this file, so the initial store   *)
(* ranges over every status of a record and every set of metadata keys.    *)
(***************************************************************************)
EXTENDS Integers, Sequences, FiniteSets, TLC

VARIABLES lbs, meta, now, purged, pd_since, op, pre

vars == <<lbs, meta, now, purged, pd_since, op, pre>>

----------------------------------------------------------------------------
(* Bounds of the model.                                                    *)

MaxTicks == 2
MaxNodes == 2

(* Program constants.                                                      *)

DefaultDwell == 10
GracePeriod == 3600

Ids == {1, 2}

\* The current times the callers supply: a few 5-second ticks from the start,
\* and the same again one grace period later.
Offsets == {5 * k : k \in 0..MaxTicks}

Times == {e * GracePeriod + o : e \in {0, 1}, o \in Offsets}

State == {"BUILD", "ACTIVE", "PENDING-UPDATE", "PENDING-DELETE", "ERROR",
          "DELETED"}

MetaKeys == {"lb_building", "lb_pending_update", "lb_pending_delete",
             "lb_error_state"}

MetaValues(k) ==
    CASE k = "lb_building" -> {0, 5}
      [] k = "lb_pending_update" -> {5}
      [] k = "lb_pending_delete" -> {0, 5}
      [] k = "lb_error_state" -> {1}

MetaDicts ==
    UNION {{f \in [ks -> {0, 1, 5}] : \A k \in ks : f[k] \in MetaValues(k)}
           : ks \in SUBSET MetaKeys}

----------------------------------------------------------------------------
(* Python helpers.                                                         *)

None == "None"

\* x or d, for a number x: 0 is falsy.
PyOr(x, d) == IF x = 0 THEN d ELSE x

\* x or d, for a status x that may be None.
OrElse(x, d) == IF x = None THEN d ELSE x

\* mimic.util.helper.seconds_to_timestamp: seconds since the epoch rendered
\* as the fields of a textual timestamp (day, hour, minute, second).
seconds_to_timestamp(s) ==
    <<s \div 86400, (s % 86400) \div 3600, (s % 3600) \div 60, s % 60>>

\* mimic.util.helper.timestamp_to_seconds: the inverse parse.
timestamp_to_seconds(ts) ==
    ts[1] * 86400 + ts[2] * 3600 + ts[3] * 60 + ts[4]

\* mimic.util.helper.set_resource_status: the status once the dwell is over,
\* None before.
set_resource_status(updated_time, time_delta, status, current_timestamp) ==
    IF current_timestamp - timestamp_to_seconds(updated_time) >= time_delta
    THEN status
    ELSE None

\* del d[k]
DelKey(d, k) == [x \in DOMAIN d \ {k} |-> d[x]]

\* d.get("nodes", [])
GetNodes(rec) == IF "nodes" \in DOMAIN rec THEN rec["nodes"] ELSE <<>>

Outcome(l, m, r) == [lbs |-> l, meta |-> m, raised |-> r]

----------------------------------------------------------------------------
(* _verify_and_update_lb_state, one operator per branch of the if/elif     *)
(* chain.                                                                  *)

advance_BUILD(l, m, lb_id, t) ==
    IF "lb_building" \notin DOMAIN m[lb_id]
    THEN Outcome(l, m, TRUE)
    ELSE LET m1 == [m EXCEPT ![lb_id]["lb_building"] = PyOr(@, DefaultDwell)]
             st == OrElse(set_resource_status(l[lb_id]["updated"]["time"],
                                              m1[lb_id]["lb_building"],
                                              "ACTIVE", t), "BUILD")
         IN  Outcome([l EXCEPT ![lb_id]["status"] = st], m1, FALSE)

\* advance_ACTIVE with the error flag tested before the delete flag.
advance_ACTIVE_ErrorFirst(l, m, lb_id, t) ==
    LET s1 == IF "lb_pending_update" \in DOMAIN m[lb_id]
              THEN "PENDING-UPDATE" ELSE l[lb_id]["status"]
        s2 == IF "lb_error_state" \in DOMAIN m[lb_id]
              THEN "ERROR" ELSE s1
        s3 == IF "lb_pending_delete" \in DOMAIN m[lb_id]
              THEN "PENDING-DELETE" ELSE s2
    IN  Outcome([l EXCEPT ![lb_id]["status"] = s3,
                          ![lb_id]["updated"]["time"] = seconds_to_timestamp(t)],
                m, FALSE)

\* advance_ACTIVE with the update flag tested last.
advance_ACTIVE_UpdateLast(l, m, lb_id, t) ==
    LET s1 == IF "lb_pending_delete" \in DOMAIN m[lb_id]
              THEN "PENDING-DELETE" ELSE l[lb_id]["status"]
        s2 == IF "lb_error_state" \in DOMAIN m[lb_id]
              THEN "ERROR" ELSE s1
        s3 == IF "lb_pending_update" \in DOMAIN m[lb_id]
              THEN "PENDING-UPDATE" ELSE s2
    IN  Outcome([l EXCEPT ![lb_id]["status"] = s3,
                          ![lb_id]["updated"]["time"] = seconds_to_timestamp(t)],
                m, FALSE)

\* advance_ACTIVE consuming the delete flag that moves the resource.
advance_ACTIVE_ConsumesFlag(l, m, lb_id, t) ==
    LET s1 == IF "lb_pending_update" \in DOMAIN m[lb_id]
              THEN "PENDING-UPDATE" ELSE l[lb_id]["status"]
        s2 == IF "lb_pending_delete" \in DOMAIN m[lb_id]
              THEN "PENDING-DELETE" ELSE s1
        s3 == IF "lb_error_state" \in DOMAIN m[lb_id]
              THEN "ERROR" ELSE s2
    IN  Outcome([l EXCEPT ![lb_id]["status"] = s3,
                          ![lb_id]["updated"]["time"] = seconds_to_timestamp(t)],
                [m EXCEPT ![lb_id] = DelKey(@, "lb_pending_delete")], FALSE)

\* advance_ACTIVE leaving the updated time as it was.
advance_ACTIVE_NoRefresh(l, m, lb_id, t) ==
    LET s1 == IF "lb_pending_update" \in DOMAIN m[lb_id]
              THEN "PENDING-UPDATE" ELSE l[lb_id]["status"]
        s2 == IF "lb_pending_delete" \in DOMAIN m[lb_id]
              THEN "PENDING-DELETE" ELSE s1
        s3 == IF "lb_error_state" \in DOMAIN m[lb_id]
              THEN "ERROR" ELSE s2
    IN  Outcome([l EXCEPT ![lb_id]["status"] = s3], m, FALSE)

advance_ACTIVE(l, m, lb_id, t) ==
    LET s1 == IF "lb_pending_update" \in DOMAIN m[lb_id]
              THEN "PENDING-UPDATE" ELSE l[lb_id]["status"]
        s2 == IF "lb_pending_delete" \in DOMAIN m[lb_id]
              THEN "PENDING-DELETE" ELSE s1
        s3 == IF "lb_error_state" \in DOMAIN m[lb_id]
              THEN "ERROR" ELSE s2
    IN  Outcome([l EXCEPT ![lb_id]["status"] = s3,
                          ![lb_id]["updated"]["time"] = seconds_to_timestamp(t)],
                m, FALSE)

\* advance_PENDING_UPDATE refreshing the updated time as the PENDING-DELETE
\* branch does.
advance_PENDING_UPDATE_Refresh(l, m, lb_id, t) ==
    LET r == IF "lb_pending_update" \in DOMAIN m[lb_id]
             THEN OrElse(set_resource_status(l[lb_id]["updated"]["time"],
                                             m[lb_id]["lb_pending_update"],
                                             "ACTIVE", t),
                         "PENDING-UPDATE")
             ELSE l[lb_id]["status"]
    IN  Outcome([l EXCEPT ![lb_id]["status"] = r,
                          ![lb_id]["updated"]["time"] = seconds_to_timestamp(t)],
                m, FALSE)

advance_PENDING_UPDATE(l, m, lb_id, t) ==
    IF "lb_pending_update" \in DOMAIN m[lb_id]
    THEN LET st == OrElse(set_resource_status(l[lb_id]["updated"]["time"],
                                              m[lb_id]["lb_pending_update"],
                                              "ACTIVE", t), "PENDING-UPDATE")
         IN  Outcome([l EXCEPT ![lb_id]["status"] = st], m, FALSE)
    ELSE Outcome(l, m, FALSE)

advance_PENDING_DELETE(l, m, lb_id, t) ==
    IF "lb_pending_delete" \notin DOMAIN m[lb_id]
    THEN Outcome(l, m, TRUE)
    ELSE LET m1 == [m EXCEPT ![lb_id]["lb_pending_delete"] =
                                  PyOr(@, DefaultDwell)]
             st == OrElse(set_resource_status(l[lb_id]["updated"]["time"],
                                              m1[lb_id]["lb_pending_delete"],
                                              "DELETED", t), "PENDING-DELETE")
         IN  Outcome([l EXCEPT ![lb_id]["status"] = st,
                               ![lb_id]["updated"]["time"] =
                                   seconds_to_timestamp(t)],
                     m1, FALSE)

\* advance_DELETED refreshing the updated time while the record stays, as
\* the PENDING-DELETE branch does.
advance_DELETED_Refresh(l, m, lb_id, t) ==
    LET st == OrElse(set_resource_status(l[lb_id]["updated"]["time"],
                                         GracePeriod, "DELETING-NOW", t),
                     "DELETED")
    IN  IF st = "DELETING-NOW"
        THEN Outcome(DelKey(l, lb_id), m, FALSE)
        ELSE Outcome([l EXCEPT ![lb_id]["status"] = st,
                               ![lb_id]["updated"]["time"] =
                                   seconds_to_timestamp(t)], m, FALSE)

\* advance_DELETED storing the sentinel instead of deleting the record.
advance_DELETED_KeepsSentinel(l, m, lb_id, t) ==
    LET st == OrElse(set_resource_status(l[lb_id]["updated"]["time"],
                                         GracePeriod, "DELETING-NOW", t),
                     "DELETED")
    IN  Outcome([l EXCEPT ![lb_id]["status"] = st], m, FALSE)

advance_DELETED(l, m, lb_id, t) ==
    LET st == OrElse(set_resource_status(l[lb_id]["updated"]["time"],
                                         GracePeriod, "DELETING-NOW", t),
                     "DELETED")
    IN  IF st = "DELETING-NOW"
        THEN Outcome(DelKey(l, lb_id), m, FALSE)
        ELSE Outcome([l EXCEPT ![lb_id]["status"] = st], m, FALSE)

\* _verify_and_update_lb_state applying the ACTIVE triggers whatever set_state.
_verify_and_update_lb_state_AlwaysTriggers(l, m, lb_id, set_state, t) ==
    LET status == l[lb_id]["status"]
    IN  CASE status = "BUILD" -> advance_BUILD(l, m, lb_id, t)
          [] status = "ACTIVE" -> advance_ACTIVE(l, m, lb_id, t)
          [] status = "PENDING-UPDATE" -> advance_PENDING_UPDATE(l, m, lb_id, t)
          [] status = "PENDING-DELETE" -> advance_PENDING_DELETE(l, m, lb_id, t)
          [] status = "DELETED" -> advance_DELETED(l, m, lb_id, t)
          [] OTHER -> Outcome(l, m, FALSE)

_verify_and_update_lb_state(l, m, lb_id, set_state, t) ==
    LET status == l[lb_id]["status"] IN
    CASE status = "BUILD" -> advance_BUILD(l, m, lb_id, t)
      [] status = "ACTIVE" /\ set_state -> advance_ACTIVE(l, m, lb_id, t)
      [] status = "PENDING-UPDATE" -> advance_PENDING_UPDATE(l, m, lb_id, t)
      [] status = "PENDING-DELETE" -> advance_PENDING_DELETE(l, m, lb_id, t)
      [] status = "DELETED" -> advance_DELETED(l, m, lb_id, t)
      [] OTHER -> Outcome(l, m, FALSE)

----------------------------------------------------------------------------
(* The handlers.  A reply is the store after the call, the status code     *)
(* (0 when the call raised), the body and whether the call raised.         *)

Reply(l, m, rc, raised, body) ==
    [lbs |-> l, meta |-> m, rc |-> rc, raised |-> raised, body |-> body]

\* del_after_advance removing only ACTIVE records.
del_after_advance_KeepsRecord(l, m, lb_id, t) ==
    IF lb_id \notin DOMAIN l
    THEN Reply(l, m, 0, TRUE, <<>>)
    ELSE LET status == l[lb_id]["status"] IN
         IF status = "ACTIVE"
         THEN Reply(DelKey(l, lb_id), m, 202, FALSE, <<>>)
         ELSE IF status \in {"ERROR", "PENDING-UPDATE", "PENDING-DELETE"}
         THEN Reply(l, m, 202, FALSE, <<>>)
         ELSE IF status = "DELETED"
         THEN LET a == _verify_and_update_lb_state(l, m, lb_id, TRUE, t)
              IN  IF a.raised
                  THEN Reply(a.lbs, a.meta, 0, TRUE, <<>>)
                  ELSE Reply(a.lbs, a.meta, 400, FALSE, <<>>)
         ELSE Reply(l, m, 404, FALSE, <<>>)

\* del_load_balancer after the first advance (lines 66-82).
del_after_advance(l, m, lb_id, t) ==
    IF lb_id \notin DOMAIN l
    THEN Reply(l, m, 0, TRUE, <<>>)
    ELSE LET status == l[lb_id]["status"] IN
         IF status \in {"ACTIVE", "ERROR", "PENDING-UPDATE"}
         THEN Reply(DelKey(l, lb_id), m, 202, FALSE, <<>>)
         ELSE IF status = "PENDING-DELETE"
         THEN Reply(l, m, 202, FALSE, <<>>)
         ELSE IF status = "DELETED"
         THEN LET a == _verify_and_update_lb_state(l, m, lb_id, TRUE, t)
              IN  IF a.raised
                  THEN Reply(a.lbs, a.meta, 0, TRUE, <<>>)
                  ELSE Reply(a.lbs, a.meta, 400, FALSE, <<>>)
         ELSE Reply(l, m, 404, FALSE, <<>>)

\* del_load_balancer advancing before the PENDING-DELETE pre-check.
del_load_balancer_AdvanceFirst(l, m, lb_id, t) ==
    IF lb_id \in DOMAIN l
    THEN LET a == _verify_and_update_lb_state(l, m, lb_id, TRUE, t)
         IN  IF a.raised
             THEN Reply(a.lbs, a.meta, 0, TRUE, <<>>)
             ELSE IF l[lb_id]["status"] = "PENDING-DELETE"
             THEN Reply(a.lbs, a.meta, 400, FALSE, <<>>)
             ELSE del_after_advance(a.lbs, a.meta, lb_id, t)
    ELSE Reply(l, m, 404, FALSE, <<>>)

\* del_load_balancer without the PENDING-DELETE pre-check of lines 58-62.
del_load_balancer_NoPreCheck(l, m, lb_id, t) ==
    IF lb_id \in DOMAIN l
    THEN LET a == _verify_and_update_lb_state(l, m, lb_id, TRUE, t)
         IN  IF a.raised
             THEN Reply(a.lbs, a.meta, 0, TRUE, <<>>)
             ELSE del_after_advance(a.lbs, a.meta, lb_id, t)
    ELSE Reply(l, m, 404, FALSE, <<>>)

\* del_load_balancer answering an unknown id with the 400 of line 80.
del_load_balancer_Absent400(l, m, lb_id, t) ==
    IF lb_id \in DOMAIN l
    THEN IF l[lb_id]["status"] = "PENDING-DELETE"
         THEN Reply(l, m, 400, FALSE, <<>>)
         ELSE LET a == _verify_and_update_lb_state(l, m, lb_id, TRUE, t)
              IN  IF a.raised
                  THEN Reply(a.lbs, a.meta, 0, TRUE, <<>>)
                  ELSE del_after_advance(a.lbs, a.meta, lb_id, t)
    ELSE Reply(l, m, 400, FALSE, <<>>)

del_load_balancer(l, m, lb_id, t) ==
    IF lb_id \in DOMAIN l
    THEN IF l[lb_id]["status"] = "PENDING-DELETE"
         THEN Reply(l, m, 400, FALSE, <<>>)
         ELSE LET a == _verify_and_update_lb_state(l, m, lb_id, TRUE, t)
              IN  IF a.raised
                  THEN Reply(a.lbs, a.meta, 0, TRUE, <<>>)
                  ELSE del_after_advance(a.lbs, a.meta, lb_id, t)
    ELSE Reply(l, m, 404, FALSE, <<>>)

list_nodes(l, m, lb_id, t) ==
    IF lb_id \in DOMAIN l
    THEN LET a == _verify_and_update_lb_state(l, m, lb_id, FALSE, t) IN
         IF a.raised
         THEN Reply(a.lbs, a.meta, 0, TRUE, <<>>)
         ELSE IF lb_id \notin DOMAIN a.lbs
         THEN Reply(a.lbs, a.meta, 404, FALSE, <<>>)
         ELSE IF a.lbs[lb_id]["status"] = "DELETED"
         THEN Reply(a.lbs, a.meta, 410, FALSE, <<>>)
         ELSE Reply(a.lbs, a.meta, 200, FALSE,
                    IF "nodes" \in DOMAIN a.lbs[lb_id]
                       /\ a.lbs[lb_id]["nodes"] # <<>>
                    THEN a.lbs[lb_id]["nodes"] ELSE <<>>)
    ELSE Reply(l, m, 404, FALSE, <<>>)

\* list.index(each) followed by del list[index]
RemoveAt(s, i) == [j \in 1..(Len(s) - 1) |-> IF j < i THEN s[j] ELSE s[j + 1]]

\* _delete_node leaving the emptied list in the record and nodeCount as it
\* was.
_delete_node_StaleCount(rec, node_id) ==
    IF GetNodes(rec) # <<>> /\ \E i \in DOMAIN rec["nodes"] : rec["nodes"][i] = node_id
    THEN LET index == CHOOSE i \in DOMAIN rec["nodes"] :
                          /\ rec["nodes"][i] = node_id
                          /\ \A j \in 1..(i - 1) : rec["nodes"][j] # node_id
         IN  [rec EXCEPT !["nodes"] = RemoveAt(rec["nodes"], index)]
    ELSE rec

\* _delete_node: the record after the call; the call returns True iff the
\* record changed its node collection.
_delete_node(rec, node_id) ==
    IF GetNodes(rec) # <<>> /\ \E i \in DOMAIN rec["nodes"] : rec["nodes"][i] = node_id
    THEN LET index == CHOOSE i \in DOMAIN rec["nodes"] :
                          /\ rec["nodes"][i] = node_id
                          /\ \A j \in 1..(i - 1) : rec["nodes"][j] # node_id
             rest == RemoveAt(rec["nodes"], index)
             r1 == IF rest = <<>> THEN DelKey(rec, "nodes")
                   ELSE [rec EXCEPT !["nodes"] = rest]
         IN  [r1 EXCEPT !["nodeCount"] = Len(GetNodes(r1))]
    ELSE rec

----------------------------------------------------------------------------
(* The state machine.                                                      *)

NodeLists == {[i \in 1..n |-> i] : n \in 1..MaxNodes}

Record(status, nodes) ==
    LET base == [status |-> status,
                 updated |-> [time |-> seconds_to_timestamp(0)],
                 nodeCount |-> Len(nodes)]
    IN  IF nodes = <<>> THEN base ELSE ("nodes" :> nodes) @@ base

NoCall == [name |-> "none", id |-> 0, time |-> 0, set_state |-> FALSE,
           rc |-> 0, raised |-> FALSE, body |-> <<>>, ret |-> FALSE]

\* Ids that left the store in this step through the DELETED purge.
Purged(l, l1) ==
    {i \in DOMAIN l \ DOMAIN l1 : l[i]["status"] = "DELETED"}

\* The time each resource last entered PENDING-DELETE (-1: never).
Since(l, l1, ps, t) ==
    [i \in Ids |->
        IF /\ i \in DOMAIN l1 /\ l1[i]["status"] = "PENDING-DELETE"
           /\ ~(i \in DOMAIN l /\ l[i]["status"] = "PENDING-DELETE")
        THEN t ELSE ps[i]]

\* The store holds resource 1; id 2 is unknown to it.  lb_building is read
\* only while the status is BUILD (lines 181-187), so only BUILD records
\* vary in it.
Init ==
    /\ \E s1 \in State, m1 \in MetaDicts, n1 \in NodeLists \cup {<<>>} :
          /\ "lb_building" \in DOMAIN m1 => s1 = "BUILD"
          /\ lbs = (1 :> Record(s1, n1))
          /\ meta = (1 :> m1)
    /\ now = 0
    /\ purged = {}
    /\ pd_since = [i \in Ids |->
                     IF i \in DOMAIN lbs /\ lbs[i]["status"] = "PENDING-DELETE"
                     THEN 0 ELSE -1]
    /\ op = NoCall
    /\ pre = [lbs |-> lbs, meta |-> meta]

Step(r, call) ==
    /\ lbs' = r.lbs
    /\ meta' = r.meta
    /\ now' = call.time
    /\ purged' = purged \cup Purged(lbs, r.lbs)
    /\ pd_since' = Since(lbs, r.lbs, pd_since, call.time)
    /\ op' = call
    /\ pre' = [lbs |-> lbs, meta |-> meta]

Del(lb_id, t) ==
    /\ t >= now
    /\ LET r == del_load_balancer(lbs, meta, lb_id, t)
       IN  Step(r, [NoCall EXCEPT !.name = "del_load_balancer", !.id = lb_id,
                                  !.time = t, !.set_state = TRUE,
                                  !.rc = r.rc, !.raised = r.raised])

ListNodes(lb_id, t) ==
    /\ t >= now
    /\ LET r == list_nodes(lbs, meta, lb_id, t)
       IN  Step(r, [NoCall EXCEPT !.name = "list_nodes", !.id = lb_id,
                                  !.time = t, !.rc = r.rc,
                                  !.raised = r.raised, !.body = r.body])

\* A handler outside this file advancing a resource it found in the store.
Advance(lb_id, set_state, t) ==
    /\ t >= now
    /\ lb_id \in DOMAIN lbs
    /\ LET r == _verify_and_update_lb_state(lbs, meta, lb_id, set_state, t)
       IN  Step(r, [NoCall EXCEPT !.name = "advance", !.id = lb_id,
                                  !.time = t, !.set_state = set_state,
                                  !.raised = r.raised])

DeleteNode(lb_id, node_id) ==
    /\ lb_id \in DOMAIN lbs
    /\ LET rec == _delete_node(lbs[lb_id], node_id)
       IN  Step([lbs |-> [lbs EXCEPT ![lb_id] = rec], meta |-> meta],
                [NoCall EXCEPT !.name = "_delete_node", !.id = lb_id,
                               !.time = now, !.body = <<node_id>>,
                               !.ret = (rec # lbs[lb_id])])

Next ==
    \/ \E lb_id \in Ids, t \in Times : Del(lb_id, t)
    \/ \E lb_id \in Ids, t \in Times : ListNodes(lb_id, t)
    \/ \E lb_id \in Ids, set_state \in BOOLEAN, t \in Times :
           Advance(lb_id, set_state, t)
    \/ \E lb_id \in Ids, node_id \in 1..MaxNodes : DeleteNode(lb_id, node_id)

Spec == Init /\ [][Next]_vars

\* The handlers of this file alone, on a store whose resources are BUILD or
\* ACTIVE: the lifecycle is advanced only by del_load_balancer and
\* list_nodes.
InitHandlers ==
    /\ \E s1 \in {"BUILD", "ACTIVE"}, m1 \in MetaDicts,
          n1 \in NodeLists \cup {<<>>} :
          /\ "lb_building" \in DOMAIN m1 => s1 = "BUILD"
          /\ lbs = (1 :> Record(s1, n1))
          /\ meta = (1 :> m1)
    /\ now = 0
    /\ purged = {}
    /\ pd_since = [i \in Ids |-> -1]
    /\ op = NoCall
    /\ pre = [lbs |-> lbs, meta |-> meta]

NextHandlers ==
    \/ \E lb_id \in Ids, t \in Times : Del(lb_id, t)
    \/ \E lb_id \in Ids, t \in Times : ListNodes(lb_id, t)
    \/ \E lb_id \in Ids, node_id \in 1..MaxNodes : DeleteNode(lb_id, node_id)

SpecHandlers == InitHandlers /\ [][NextHandlers]_vars

\* Two resources side by side, BUILD or ACTIVE at the start.  Both carry
\* the two dwell values the code rewrites (lines 182 and 208), unset (0),
\* and any of the other flags; resource 1 holds one node.
TwoMeta ==
    {d \in MetaDicts :
        /\ {"lb_building", "lb_pending_delete"} \subseteq DOMAIN d
        /\ d["lb_building"] = 0 /\ d["lb_pending_delete"] = 0}

InitTwo ==
    /\ \E s1, s2 \in {"BUILD", "ACTIVE"}, m1, m2 \in TwoMeta :
          /\ lbs = (1 :> Record(s1, <<1>>)) @@ (2 :> Record(s2, <<>>))
          /\ meta = (1 :> m1) @@ (2 :> m2)
    /\ now = 0
    /\ purged = {}
    /\ pd_since = [i \in Ids |-> -1]
    /\ op = NoCall
    /\ pre = [lbs |-> lbs, meta |-> meta]

\* The times at which the dwell of a resource is over or not: the start, the
\* default dwell later, and a grace period after that.
TwoTimes == {0, DefaultDwell, DefaultDwell + GracePeriod}

NextTwo ==
    \/ \E lb_id \in Ids, t \in TwoTimes : Del(lb_id, t)
    \/ \E lb_id \in Ids, t \in TwoTimes : ListNodes(lb_id, t)
    \/ \E lb_id \in Ids, set_state \in BOOLEAN, t \in TwoTimes :
           Advance(lb_id, set_state, t)
    \/ \E lb_id \in Ids, node_id \in 1..MaxNodes : DeleteNode(lb_id, node_id)

SpecTwo == InitTwo /\ [][NextTwo]_vars

\* The latest current time a caller supplies.
LastTime == GracePeriod + 5 * MaxTicks

\* Continued observation while time grows: a resource on its way out of the
\* store (PENDING-DELETE or DELETED at the start) keeps being observed by
\* list_nodes and del_load_balancer, and in the end at the latest time.
InitObserved ==
    /\ \E s1 \in {"PENDING-DELETE", "DELETED"},
          v \in MetaValues("lb_pending_delete") :
          /\ lbs = (1 :> Record(s1, <<>>))
          /\ meta = (1 :> [lb_pending_delete |-> v])
    /\ now = 0
    /\ purged = {}
    /\ pd_since = [i \in Ids |->
                     IF i \in DOMAIN lbs /\ lbs[i]["status"] = "PENDING-DELETE"
                     THEN 0 ELSE -1]
    /\ op = NoCall
    /\ pre = [lbs |-> lbs, meta |-> meta]

NextObserved ==
    \/ \E lb_id \in Ids, t \in Times : Del(lb_id, t)
    \/ \E lb_id \in Ids, t \in Times : ListNodes(lb_id, t)

ObserveLate(lb_id) == ListNodes(lb_id, LastTime) \/ Del(lb_id, LastTime)

SpecObserved ==
    /\ InitObserved
    /\ [][NextObserved]_vars
    /\ \A lb_id \in Ids : WF_vars(ObserveLate(lb_id))

----------------------------------------------------------------------------
(* Vocabulary of the properties: op is the last call, pre the store it     *)
(* found, lbs and meta the store it left.                                  *)

IsDel == op.name = "del_load_balancer"

IsList == op.name = "list_nodes"

IsAdvance == op.name = "advance"

WasPresent == op.id \in DOMAIN pre.lbs

WasIn(status) == WasPresent /\ pre.lbs[op.id]["status"] = status

IsPresent == op.id \in DOMAIN lbs

IsIn(status) == IsPresent /\ lbs[op.id]["status"] = status

HadFlag(k) == k \in DOMAIN pre.meta[op.id]

\* The next step is a del_load_balancer on the id of the last call.
DelAgain == op'.name = "del_load_balancer" /\ op'.id = op.id

\* Seconds between the record's updated time before the call and the call.
Elapsed == op.time - timestamp_to_seconds(pre.lbs[op.id]["updated"]["time"])

\* The ACTIVE resource is moved to PENDING-DELETE by the triggers.
KeptPending == HadFlag("lb_pending_delete") /\ ~HadFlag("lb_error_state")

----------------------------------------------------------------------------
\* C1 (as stated): del_load_balancer on an ACTIVE resource, whatever its
\* flags, returns 202, removes the resource, and a second delete of the id
\* returns 404.
C1_AsStated ==
    [][(IsDel /\ WasIn("ACTIVE")) =>
          /\ ~op.raised /\ op.rc = 202
          /\ ~IsPresent
          /\ (DelAgain => op'.rc = 404)]_vars

\* C1 (amended): del_load_balancer on an ACTIVE resource returns 202.  When
\* lb_pending_delete is set and lb_error_state is not, the resource stays in
\* the store in PENDING-DELETE and a second delete returns 400; for every
\* other combination of flags it is removed and a second delete returns 404.
C1_ActiveDelete ==
    [][(IsDel /\ WasIn("ACTIVE")) =>
          /\ ~op.raised /\ op.rc = 202
          /\ IF KeptPending
             THEN IsIn("PENDING-DELETE") /\ (DelAgain => op'.rc = 400)
             ELSE ~IsPresent /\ (DelAgain => op'.rc = 404)]_vars

C1_Witness ==
    /\ IsDel /\ WasIn("ACTIVE") /\ HadFlag("lb_error_state")
    /\ HadFlag("lb_pending_delete") /\ op.rc = 202 /\ ~IsPresent

\* C2 (as stated): del_load_balancer on a resource already in PENDING-DELETE
\* returns 202 and leaves it in the store in PENDING-DELETE.
C2_AsStated ==
    (IsDel /\ WasIn("PENDING-DELETE")) =>
        (~op.raised /\ op.rc = 202 /\ IsIn("PENDING-DELETE"))

\* C2 (amended): del_load_balancer on a resource already in PENDING-DELETE
\* returns 400 and leaves it in the store in PENDING-DELETE.
C2_PendingDelete400 ==
    (IsDel /\ WasIn("PENDING-DELETE")) =>
        (~op.raised /\ op.rc = 400 /\ IsIn("PENDING-DELETE"))

C2_Witness ==
    /\ IsDel /\ WasIn("PENDING-DELETE") /\ op.rc = 400
    /\ HadFlag("lb_pending_delete") /\ Elapsed >= DefaultDwell

\* C3: del_load_balancer on a resource in DELETED returns 400 at every
\* current time, before the grace period is over (the resource stays
\* DELETED) and after it (the resource is purged during the call).
C3_Deleted400 ==
    (IsDel /\ WasIn("DELETED")) =>
        /\ ~op.raised /\ op.rc = 400
        /\ IF Elapsed >= GracePeriod THEN ~IsPresent ELSE IsIn("DELETED")

\* C4 (as stated): del_load_balancer on an id that the grace-period purge
\* removed in an earlier call returns 400.
C4_AsStated ==
    (IsDel /\ op.id \in purged /\ ~WasPresent) => (~op.raised /\ op.rc = 400)

\* C4 (amended): del_load_balancer on an id that the grace-period purge
\* removed in an earlier call returns 404.
C4_Purged404 ==
    (IsDel /\ op.id \in purged /\ ~WasPresent) => (~op.raised /\ op.rc = 404)

C4_Witness ==
    IsDel /\ op.id \in purged /\ ~WasPresent /\ op.rc = 404

\* C5: a resource that entered PENDING-DELETE at t with dwell d is DELETED
\* after any advance at a time >= t + d, however many advances observed it
\* in between.
C5_DeletedAfterDwell ==
    (/\ IsList \/ IsAdvance
     /\ WasIn("PENDING-DELETE")
     /\ HadFlag("lb_pending_delete")
     /\ op.time >= pd_since[op.id]
                     + PyOr(pre.meta[op.id]["lb_pending_delete"], DefaultDwell))
    => IsIn("DELETED")

\* C6: list_nodes returns 404 iff the id is absent before the call or removed
\* by its advance, 410 iff the resource is left in the store in DELETED, and
\* otherwise 200 with the node collection (empty when absent).
C6_ListNodes ==
    IsList =>
        /\ ~op.raised
        /\ (op.rc = 404) <=> ~IsPresent
        /\ (op.rc = 410) <=> IsIn("DELETED")
        /\ (IsPresent /\ ~IsIn("DELETED")) =>
               (op.rc = 200 /\ op.body = GetNodes(lbs[op.id]))

\* C7: an advance at time c on a BUILD resource with updated time t0 and
\* configured dwell d >= 0 (the value of lb_building) leaves it ACTIVE iff
\* c - t0 >= d and BUILD iff c - t0 < d.
C7_BuildDwell ==
    (IsAdvance /\ WasIn("BUILD") /\ HadFlag("lb_building")) =>
        LET d == pre.meta[op.id]["lb_building"]
        IN  /\ ~op.raised
            /\ IsIn("ACTIVE") <=> (Elapsed >= d)
            /\ IsIn("BUILD") <=> (Elapsed < d)

\* C8: store.meta holds an entry only for the ids store.lbs holds.
C8_MetaOnlyWhileStored == DOMAIN meta \subseteq DOMAIN lbs

\* C9: del_load_balancer returns 404 only for an id that is absent from the
\* store when it is called.
C9_NotFoundOnlyAbsent ==
    (IsDel /\ ~op.raised /\ op.rc = 404) => ~WasPresent

\* C10: an advance on an id of the store never raises, whatever the status
\* and whichever metadata keys are set, and leaves a status of the State
\* enum.
C10_AdvanceNeverFails ==
    IsAdvance =>
        /\ ~op.raised
        /\ IsPresent => lbs[op.id]["status"] \in State

\* A DELETED resource whose grace period ends within the times of the model.
Doomed(i) ==
    /\ i \in DOMAIN lbs /\ lbs[i]["status"] = "DELETED"
    /\ timestamp_to_seconds(lbs[i]["updated"]["time"]) + GracePeriod <= LastTime

\* The last call purged its DELETED resource.
PurgedNow == op.name # "none" /\ WasIn("DELETED") /\ ~IsPresent

\* C11: under continued observation with growing time every DELETED resource
\* is eventually removed from the store, and no call removes a DELETED
\* resource earlier than its updated time + 3600.
C11_DeletedEventuallyPurged ==
    /\ \A i \in Ids : Doomed(i) ~> (i \notin DOMAIN lbs)
    /\ [](PurgedNow => Elapsed >= GracePeriod)

C11_Witness == PurgedNow /\ IsList /\ op.rc = 404 /\ Elapsed >= GracePeriod

IsDeleteNode == op.name = "_delete_node"

\* The next step is a list_nodes on the id of the last call that returns 200.
ListedNext == op'.name = "list_nodes" /\ op'.id = op.id /\ op'.rc = 200

\* C12: after every _delete_node call nodeCount is the number of nodes of the
\* collection (0 when it is absent); removing the only node deletes the
\* "nodes" key and sets nodeCount to 0, and a following list_nodes returns
\* the empty sequence.
C12_NodeCountInSync ==
    [][IsDeleteNode =>
          /\ lbs[op.id]["nodeCount"] = Len(GetNodes(lbs[op.id]))
          /\ (op.ret /\ Len(GetNodes(pre.lbs[op.id])) = 1) =>
                 /\ "nodes" \notin DOMAIN lbs[op.id]
                 /\ lbs[op.id]["nodeCount"] = 0
                 /\ (ListedNext => op'.body = <<>>)]_vars

C12_Witness ==
    /\ IsDeleteNode /\ op.ret /\ Len(GetNodes(pre.lbs[op.id])) = 1
    /\ "nodes" \notin DOMAIN lbs[op.id]

\* The status the trigger flags of an ACTIVE resource select.
Triggered ==
    IF HadFlag("lb_error_state") THEN "ERROR"
    ELSE IF HadFlag("lb_pending_delete") THEN "PENDING-DELETE"
    ELSE IF HadFlag("lb_pending_update") THEN "PENDING-UPDATE"
    ELSE "ACTIVE"

\* C13: an advance with triggers enabled on an ACTIVE resource leaves ERROR
\* if lb_error_state is set, else PENDING-DELETE if lb_pending_delete is set,
\* else PENDING-UPDATE if lb_pending_update is set, else ACTIVE.
C13_TriggerPrecedence ==
    (IsAdvance /\ op.set_state /\ WasIn("ACTIVE")) =>
        (~op.raised /\ IsIn(Triggered))

C13_Witness ==
    /\ IsAdvance /\ op.set_state /\ WasIn("ACTIVE")
    /\ HadFlag("lb_pending_update") /\ HadFlag("lb_pending_delete")
    /\ ~HadFlag("lb_error_state") /\ IsIn("PENDING-DELETE")

\* The call advanced the lifecycle of a stored resource: a direct advance, or
\* the advance list_nodes makes with triggers disabled (line 104).
Advanced == (IsAdvance \/ IsList) /\ WasPresent

NoFlag ==
    /\ ~HadFlag("lb_pending_update")
    /\ ~HadFlag("lb_pending_delete")
    /\ ~HadFlag("lb_error_state")

Refreshed ==
    IsPresent /\ lbs[op.id]["updated"]["time"] = seconds_to_timestamp(op.time)

UpdatedKept ==
    IsPresent /\ lbs[op.id]["updated"] = pre.lbs[op.id]["updated"]

\* C14 (as stated): every advance on an ACTIVE resource without a trigger
\* transition (no flag set, or triggers disabled as on list_nodes) leaves the
\* status ACTIVE and sets the updated time to the current time of the call.
C14_AsStated ==
    (Advanced /\ WasIn("ACTIVE") /\ (NoFlag \/ ~op.set_state)) =>
        (IsIn("ACTIVE") /\ Refreshed)

\* C14 (amended): an advance on an ACTIVE resource without a trigger
\* transition leaves the status ACTIVE; with triggers enabled and no flag set
\* it sets the updated time to the current time, with triggers disabled it
\* leaves the whole record, the updated time included, as it was.
C14_ActiveRefresh ==
    (Advanced /\ WasIn("ACTIVE") /\ (NoFlag \/ ~op.set_state)) =>
        /\ IsIn("ACTIVE")
        /\ op.set_state => Refreshed
        /\ ~op.set_state => lbs = pre.lbs

C14_Witness ==
    /\ IsAdvance /\ op.set_state /\ WasIn("ACTIVE") /\ NoFlag
    /\ Elapsed > 0 /\ IsIn("ACTIVE") /\ Refreshed

\* C15: an advance moves a resource out of ACTIVE only with triggers enabled
\* and a flag set, no advance changes the status of a resource in ERROR, and
\* list_nodes never changes the status of an ACTIVE or ERROR resource.
C15_ActiveErrorStable ==
    Advanced =>
        /\ (WasIn("ACTIVE") /\ ~IsIn("ACTIVE")) => (op.set_state /\ ~NoFlag)
        /\ WasIn("ERROR") => IsIn("ERROR")
        /\ (IsList /\ WasIn("ACTIVE")) => (IsIn("ACTIVE") /\ op.rc = 200)

C15_Witness ==
    /\ IsList /\ WasIn("ACTIVE") /\ HadFlag("lb_error_state")
    /\ HadFlag("lb_pending_delete") /\ Elapsed >= GracePeriod
    /\ IsIn("ACTIVE")

\* The dwell of the update has elapsed at the call.
UpdateDone ==
    /\ HadFlag("lb_pending_update")
    /\ Elapsed >= pre.meta[op.id]["lb_pending_update"]

\* C16: an advance on a PENDING-UPDATE resource sets the status ACTIVE iff
\* lb_pending_update is set and current time - updated time >= its value,
\* else the status stays PENDING-UPDATE; the updated time is unchanged in all
\* cases, with triggers enabled or disabled.
C16_PendingUpdate ==
    (Advanced /\ WasIn("PENDING-UPDATE")) =>
        /\ ~op.raised
        /\ IsIn(IF UpdateDone THEN "ACTIVE" ELSE "PENDING-UPDATE")
        /\ UpdatedKept

C16_Witness ==
    /\ IsAdvance /\ ~op.set_state /\ WasIn("PENDING-UPDATE") /\ UpdateDone
    /\ Elapsed > 0 /\ IsIn("ACTIVE") /\ UpdatedKept

\* The status of the resource of the call, "removed" when it is not stored.
StatusBefore == IF WasPresent THEN pre.lbs[op.id]["status"] ELSE "removed"

StatusAfter == IF IsPresent THEN lbs[op.id]["status"] ELSE "removed"

Edges ==
    { <<"BUILD", "ACTIVE">>,
      <<"ACTIVE", "PENDING-UPDATE">>,
      <<"ACTIVE", "PENDING-DELETE">>,
      <<"ACTIVE", "ERROR">>,
      <<"PENDING-UPDATE", "ACTIVE">>,
      <<"PENDING-DELETE", "DELETED">>,
      <<"DELETED", "removed">> }

\* C17: a status change made by one advance follows exactly one edge of
\* BUILD -> ACTIVE -> {PENDING-UPDATE -> ACTIVE, PENDING-DELETE -> DELETED,
\* ERROR}, DELETED -> removed, and DELETING-NOW is never the status of a
\* stored record.
C17_OneEdge ==
    /\ \A i \in DOMAIN lbs : lbs[i]["status"] # "DELETING-NOW"
    /\ (Advanced /\ StatusAfter # StatusBefore) =>
           <<StatusBefore, StatusAfter>> \in Edges

C17_Witness ==
    /\ IsAdvance /\ WasIn("DELETED") /\ Elapsed >= GracePeriod
    /\ StatusAfter = "removed"

\* The call left the record of its id as it found it.
RecordKept ==
    /\ IsPresent <=> WasPresent
    /\ IsPresent =>
          /\ lbs[op.id]["status"] = pre.lbs[op.id]["status"]
          /\ lbs[op.id]["updated"] = pre.lbs[op.id]["updated"]

\* C18: whenever del_load_balancer returns 400 or 404 the presence, status
\* and updated time of its id are as before the call; a call on a
\* PENDING-DELETE resource returns 400 without advancing it, even when the
\* dwell has elapsed.
C18_RefusedDeleteKeepsStore ==
    /\ (IsDel /\ ~op.raised /\ op.rc \in {400, 404}) => RecordKept
    /\ (IsDel /\ WasIn("PENDING-DELETE")) => (op.rc = 400 /\ RecordKept)

C18_Witness ==
    /\ IsDel /\ WasIn("PENDING-DELETE") /\ HadFlag("lb_pending_delete")
    /\ Elapsed >= PyOr(pre.meta[op.id]["lb_pending_delete"], DefaultDwell)
    /\ Elapsed > 0 /\ op.rc = 400 /\ RecordKept

\* C19: starting with every resource in BUILD or ACTIVE, after any sequence
\* of del_load_balancer, list_nodes and _delete_node calls every stored
\* record is BUILD, ACTIVE, PENDING-DELETE or DELETED; PENDING-UPDATE and
\* ERROR never remain in the store after a call.
C19_HandlerStatuses ==
    \A i \in DOMAIN lbs :
        lbs[i]["status"] \in {"BUILD", "ACTIVE", "PENDING-DELETE", "DELETED"}

C19_Witness ==
    /\ IsDel /\ WasIn("ACTIVE") /\ HadFlag("lb_pending_update")
    /\ ~HadFlag("lb_pending_delete") /\ ~HadFlag("lb_error_state")
    /\ op.rc = 202 /\ StatusAfter = "removed"

\* The metadata value the call changed, if any, was a falsy dwell of the
\* state the resource of the call was in, replaced by the default.
DefaultWritten(i, k) ==
    /\ i = op.id
    /\ pre.meta[i][k] = 0 /\ meta[i][k] = DefaultDwell
    /\ \/ k = "lb_building" /\ WasIn("BUILD")
       \/ k = "lb_pending_delete" /\ WasIn("PENDING-DELETE")

\* C20: no operation adds or removes a metadata key, so a trigger flag is
\* not consumed by the transition it causes; the only metadata writes
\* replace a falsy lb_building (in BUILD) or lb_pending_delete (in
\* PENDING-DELETE) by 10; and an operation on one id leaves the record and
\* the metadata of every other id unchanged.
C20_MetaFrame ==
    /\ DOMAIN meta = DOMAIN pre.meta
    /\ \A i \in DOMAIN meta :
          /\ DOMAIN meta[i] = DOMAIN pre.meta[i]
          /\ \A k \in DOMAIN meta[i] :
                meta[i][k] # pre.meta[i][k] => DefaultWritten(i, k)
    /\ \A i \in Ids \ {op.id} :
          /\ i \in DOMAIN lbs <=> i \in DOMAIN pre.lbs
          /\ i \in DOMAIN lbs => lbs[i] = pre.lbs[i]

C20_Witness ==
    /\ IsList /\ WasIn("PENDING-DELETE")
    /\ DefaultWritten(op.id, "lb_pending_delete")
    /\ \E i \in DOMAIN lbs \ {op.id} : lbs[i]["status"] = "PENDING-DELETE"

====
